---- MODULE Spec2Model ----
(***************************************************************************)
(* Model of the chatbot backend (backend/app): the request/persist/respond *)
(* flow of POST /chat, the GET /history query and the crud functions they  *)
(* call, over the chat_messages table.                                     *)
(*                                                                         *)
(* The table outlives the process (main.py:13 only creates it when it is   *)
(* missing), so a run starts with whatever rows it already holds.          *)
(***************************************************************************)
EXTENDS Integers, Sequences, FiniteSets, TLC

\* ---------------------------------------------------------------- bounds
MaxReq == 2          \* requests handled in one run
MaxRows == 11        \* rows the table holds when the process starts
MaxClock == 1        \* how far the store clock may have advanced at an insert
MaxPrompts == 2      \* prompts a client submits between two clears
MaxTotal == 4        \* cap of the client's total_messages counter

\* ------------------------------------------------------ program constants
DefaultLimit == 10   \* crud.py:14  limit: int = 10

Null == "<None>"     \* Python None / SQL NULL
NoExc == "-"         \* no exception raised

Reqs == 1..MaxReq
Msgs == {"", " A "}            \* texts a client submits
Replies == {"r1", "r2"}             \* texts the provider generates

\* The methods of a SQLAlchemy Query object that crud.py could call.
QueryMethods == {"filter", "order_by", "limit", "all"}

\* ------------------------------------------------------------ request bodies
\* A JSON body of POST /chat, reduced to its user_message member.
NoBody == [has |-> FALSE, t |-> "none", v |-> ""]
TextBody(m) == [has |-> TRUE, t |-> "str", v |-> m]
IntBody == [has |-> TRUE, t |-> "int", v |-> "123"]
Bodies == {NoBody, IntBody} \cup {TextBody(m) : m \in Msgs}

\* A lax validation that coerces a number to text (pydantic v1 behaviour).
ChatRequestValid_coercing(body) == body.has /\ body.t \in {"str", "int"}

\* pydantic validation of ChatRequest: user_message is required and a str.
ChatRequestValid(body) == body.has /\ body.t = "str"

\* The validated request object: it carries user_message and nothing else.
ChatRequest(body) == [user_message |-> body.v]

\* The raw value of the limit query parameter of GET /history.
NoLimit == "<absent>"
LimitParams == {NoLimit, "3", "invalid", "0"}

\* The values DATABASE_URL may have in the environment of the process.
PostgresUrl == "postgresql://db"
DatabaseUrls == {Null, PostgresUrl}

\* Groq(api_key=os.getenv("GROQ_API_KEY")): the provider client of the module.
ApiKey == "GROQ_API_KEY"
Groq(api_key) == [api_key |-> api_key]
NoClient == [api_key |-> Null]

\* The instruction get_response puts in front of every user message.
system_prompt ==
    "You are an AI educational assistant. Your goal is to provide helpful, "
      \o "accurate, and engaging educational content. Explain concepts clearly "
      \o "and provide examples when appropriate."
      \o "if not explicity specified, give a concise and simple to understand explanation"
      \o "You can then ask if the user understands or want a indepth explanation"

VARIABLES store, req, proc, ui

vars == <<store, req, proc, ui>>

\* The process of the service: its phase, the DATABASE_URL it was started
\* with and the module-level provider client.
RunningProc ==
    [phase |-> "running", database_url |-> PostgresUrl, client |-> Groq(ApiKey)]

\* st.session_state of the client when its script first runs.
InitialUi == [messages |-> <<>>, total_messages |-> 0, pc |-> "idle"]

\* ------------------------------------------------------------------ store
\* Row i of the table at process start.  Ids follow insertion order and
\* timestamps never decrease with it.
RowMsg(i) == IF i % 3 = 0 THEN "" ELSE IF i % 3 = 1 THEN "a" ELSE " A "
RowBot(i) == IF i % 4 = 0 THEN Null ELSE IF i % 2 = 0 THEN "r2" ELSE "r1"
ExistingRow(i) ==
    [id |-> i, user_id |-> 1 + (i % 2), user_message |-> RowMsg(i),
     bot_response |-> RowBot(i), timestamp |-> (i + 1) \div 2]

\* No row: the value of chat_entry before save_chat has returned one.
NoEntry == [id |-> 0, user_id |-> 0, user_message |-> "", bot_response |-> Null,
            timestamp |-> 0]

IdleReq ==
    [kind |-> "none", pc |-> "idle", session |-> "none",
     body |-> NoBody, limit_param |-> NoLimit,
     args |-> [has_user_id |-> FALSE, user_id |-> 0,
               has_limit |-> FALSE, limit |-> 0],
     chat |-> [user_message |-> ""], response |-> Null,
     messages |-> <<>>, candidates |-> "none",
     provider_out |-> [ok |-> FALSE, choices |-> <<>>],
     provider |-> "none", provider_calls |-> 0, save_calls |-> 0,
     inserts |-> 0, chat_entry |-> NoEntry, chats |-> <<>>,
     exc |-> NoExc, status |-> 0,
     chat_result |-> [user_message |-> "", bot_response |-> Null,
                      timestamp |-> 0],
     history_result |-> <<>>]

Init ==
    /\ \E n \in 0..MaxRows : store = [i \in 1..n |-> ExistingRow(i)]
    /\ req = [r \in Reqs |-> IdleReq]
    /\ proc = RunningProc
    /\ ui = InitialUi

\* ------------------------------------------------------------------- crud
\* The id the store assigns to the next inserted row (autoincrement).
NextId(rows) == IF Len(rows) = 0 THEN 1 ELSE rows[Len(rows)].id + 1

\* A save_chat that writes the exchange over the latest row (an UPDATE where
\* the INSERT belongs) and takes no user_id from the request.
save_chat_overwriting(rows, now, chat, response) ==
    LET n == Len(rows)
        chat_entry == [id |-> IF n = 0 THEN 1 ELSE rows[n].id, user_id |-> 1,
                       user_message |-> chat.user_message,
                       bot_response |-> response, timestamp |-> now]
    IN [exc |-> NoExc,
        rows |-> IF n = 0 THEN <<chat_entry>> ELSE [rows EXCEPT ![n] = chat_entry],
        entry |-> chat_entry]

\* A save_chat that commits a row holding only the message before the
\* failing attribute read.
save_chat_partial(rows, now, chat, response) ==
    IF "user_id" \notin DOMAIN chat
    THEN [exc |-> "AttributeError",
          rows |-> Append(rows, [id |-> NextId(rows), user_id |-> 0,
                                 user_message |-> chat.user_message,
                                 bot_response |-> Null, timestamp |-> now]),
          entry |-> NoEntry]
    ELSE [exc |-> NoExc, rows |-> rows, entry |-> NoEntry]

\* crud.save_chat(db, chat, response): builds the row from chat.user_id,
\* chat.user_message and response, then add / commit / refresh.  Reading an
\* attribute the request object does not have raises AttributeError before
\* anything is added.
save_chat(rows, now, chat, response) ==
    IF "user_id" \notin DOMAIN chat
    THEN [exc |-> "AttributeError", rows |-> rows, entry |-> NoEntry]
    ELSE LET chat_entry == [id |-> NextId(rows), user_id |-> chat.user_id,
                            user_message |-> chat.user_message,
                            bot_response |-> response, timestamp |-> now]
         IN [exc |-> NoExc, rows |-> Append(rows, chat_entry),
             entry |-> chat_entry]

\* .filter(ChatMessage.user_id == user_id)
Filter(rows, user_id) == SelectSeq(rows, LAMBDA row : row.user_id = user_id)

\* ORDER BY timestamp DESC: every order of the rows in which timestamps never
\* increase (the store is free in the order of rows with equal timestamps).
OrderByTimestampDesc(rows) ==
    LET n == Len(rows)
        perms == {p \in [1..n -> 1..n] : \A i, j \in 1..n : i # j => p[i] # p[j]}
    IN {[i \in 1..n |-> rows[p[i]]] : p \in
          {q \in perms : \A i, j \in 1..n :
               i < j => rows[q[i]].timestamp >= rows[q[j]].timestamp}}

\* .limit(limit)
Limit(rows, limit) ==
    IF limit >= Len(rows) THEN rows
    ELSE IF limit <= 0 THEN <<>> ELSE SubSeq(rows, 1, limit)

\* The arguments a caller passes to get_chat_history besides db.
Args(has_user_id, user_id, has_limit, limit) ==
    [has_user_id |-> has_user_id, user_id |-> user_id,
     has_limit |-> has_limit, limit |-> limit]
NoArgs == Args(FALSE, 0, FALSE, 0)

\* crud.get_chat_history(db, user_id, limit=10).  user_id is a required
\* parameter: a call without it raises TypeError.  The query chain calls
\* Query.orderby, which a Query does not have: AttributeError.  results is
\* the set of row lists the call may return.
get_chat_history(rows, a) ==
    IF ~a.has_user_id
    THEN [exc |-> "TypeError", results |-> {}]
    ELSE IF "orderby" \notin QueryMethods
    THEN [exc |-> "AttributeError", results |-> {}]
    ELSE LET limit == IF a.has_limit THEN a.limit ELSE DefaultLimit
         IN [exc |-> NoExc,
             results |-> {Limit(o, limit) :
                            o \in OrderByTimestampDesc(Filter(rows, a.user_id))}]

\* A projection that also hands out the row's timestamp.
HistoryEntry_with_timestamp(chat) ==
    [user |-> chat.user_message, bot |-> chat.bot_response,
     timestamp |-> chat.timestamp]

\* The projection of routes/history.py:13.
HistoryEntry(chat) == [user |-> chat.user_message, bot |-> chat.bot_response]
Project(chats) == [i \in 1..Len(chats) |-> HistoryEntry(chats[i])]

\* A response schema that also declares the id.
ChatResponse_with_id(chat_entry) ==
    [id |-> chat_entry.id, user_message |-> chat_entry.user_message,
     bot_response |-> chat_entry.bot_response,
     timestamp |-> chat_entry.timestamp]

\* ChatResponse.model_validate(chat_entry, from_attributes=True)
ChatResponse(chat_entry) ==
    [user_message |-> chat_entry.user_message,
     bot_response |-> chat_entry.bot_response,
     timestamp |-> chat_entry.timestamp]

\* --------------------------------------------------------------- provider
\* What client.chat.completions.create does: it raises, or it returns a
\* response with a list of candidates (each with its message content).
ProviderFails == [ok |-> FALSE, choices |-> <<>>]
ProviderReturns(cs) == [ok |-> TRUE, choices |-> cs]
ProviderOutcomes ==
    {ProviderFails, ProviderReturns(<<>>)}
      \cup {ProviderReturns(<<c>>) : c \in Replies}
      \cup {ProviderReturns(<<c, d>>) : c \in Replies, d \in Replies}

\* What the provider did, as far as the candidates go.
Candidates(out) ==
    IF ~out.ok THEN "raised" ELSE IF Len(out.choices) = 0 THEN "empty" ELSE "some"

\* The messages argument get_response hands to client.chat.completions.create.
messages_sent_user_only(user_message) ==
    <<[role |-> "user", content |-> user_message]>>

messages_sent(user_message) ==
    <<[role |-> "system", content |-> system_prompt],
      [role |-> "user", content |-> user_message]>>

\* A get_response that takes the last candidate.
get_response_last(out) ==
    IF ~out.ok THEN [exc |-> "ProviderError", value |-> Null]
    ELSE IF Len(out.choices) = 0 THEN [exc |-> "IndexError", value |-> Null]
    ELSE [exc |-> NoExc, value |-> out.choices[Len(out.choices)]]

\* A get_response that answers None when there is no candidate.
get_response_none_on_empty(out) ==
    IF ~out.ok THEN [exc |-> "ProviderError", value |-> Null]
    ELSE IF Len(out.choices) = 0 THEN [exc |-> NoExc, value |-> Null]
    ELSE [exc |-> NoExc, value |-> out.choices[1]]

\* ai_engine.get_response: response.choices[0].message.content
get_response(out) ==
    IF ~out.ok THEN [exc |-> "ProviderError", value |-> Null]
    ELSE IF Len(out.choices) = 0 THEN [exc |-> "IndexError", value |-> Null]
    ELSE [exc |-> NoExc, value |-> out.choices[1]]

\* ---------------------------------------------------------------- actions
\* An exception that leaves the handler: FastAPI answers a request
\* validation error with 422 and any other exception with 500.
StatusOf(exc) ==
    IF exc = NoExc THEN 200 ELSE IF exc = "ValidationError" THEN 422 ELSE 500

\* A create_chat that saves the exchange before it has asked the provider.
ReceiveChat_save_first(r, body) ==
    /\ proc.phase = "running"
    /\ req[r].pc = "idle"
    /\ req' = [req EXCEPT ![r] =
         IF ChatRequestValid(body)
         THEN [@ EXCEPT !.kind = "chat", !.body = body, !.session = "open",
                        !.chat = ChatRequest(body), !.pc = "save_chat"]
         ELSE [@ EXCEPT !.kind = "chat", !.body = body, !.session = "open",
                        !.exc = "ValidationError", !.pc = "close"]]
    /\ UNCHANGED <<store, proc, ui>>

\* POST /chat arrives: get_db opens the session and the body is validated
\* against ChatRequest; an invalid body never reaches create_chat.
ReceiveChat(r, body) ==
    /\ proc.phase = "running"
    /\ req[r].pc = "idle"
    /\ req' = [req EXCEPT ![r] =
         IF ChatRequestValid(body)
         THEN [@ EXCEPT !.kind = "chat", !.body = body, !.session = "open",
                        !.chat = ChatRequest(body), !.pc = "get_response"]
         ELSE [@ EXCEPT !.kind = "chat", !.body = body, !.session = "open",
                        !.exc = "ValidationError", !.pc = "close"]]
    /\ UNCHANGED <<store, proc, ui>>

\* A create_chat that catches the provider's exception and goes on to save
\* the exchange with a null response.
create_chat_get_response_catching(r, out) ==
    /\ req[r].pc = "get_response"
    /\ LET res == get_response(out)
       IN req' = [req EXCEPT ![r] =
            IF res.exc = NoExc
            THEN [@ EXCEPT !.provider = "returned", !.response = res.value,
                           !.messages = messages_sent(req[r].chat.user_message),
                           !.candidates = Candidates(out),
                           !.provider_calls = @ + 1, !.pc = "save_chat"]
            ELSE [@ EXCEPT !.provider = "failed", !.response = Null,
                           !.messages = messages_sent(req[r].chat.user_message),
                           !.candidates = Candidates(out),
                           !.provider_calls = @ + 1, !.pc = "save_chat"]]
    /\ UNCHANGED <<store, proc, ui>>

\* A get_response that builds the module's client anew on every call, from a
\* key it takes out of the request.
create_chat_get_response_rekeying(r, out) ==
    /\ req[r].pc = "get_response"
    /\ LET res == get_response(out)
       IN req' = [req EXCEPT ![r] =
            IF res.exc = NoExc
            THEN [@ EXCEPT !.provider = "returned", !.response = res.value,
                           !.messages = messages_sent(req[r].chat.user_message),
                           !.candidates = Candidates(out),
                           !.provider_calls = @ + 1, !.pc = "save_chat"]
            ELSE [@ EXCEPT !.provider = "failed", !.exc = res.exc,
                           !.messages = messages_sent(req[r].chat.user_message),
                           !.candidates = Candidates(out),
                           !.provider_calls = @ + 1, !.pc = "close"]]
    /\ proc' = [proc EXCEPT !.client = Groq(req[r].chat.user_message)]
    /\ UNCHANGED <<store, ui>>

\* create_chat, line 13: response = get_response(chat.user_message).
\* An exception of the provider call is not caught.
create_chat_get_response(r, out) ==
    /\ req[r].pc = "get_response"
    /\ LET res == get_response(out)
       IN req' = [req EXCEPT ![r] =
            IF res.exc = NoExc
            THEN [@ EXCEPT !.provider = "returned", !.response = res.value,
                           !.messages = messages_sent(req[r].chat.user_message),
                           !.candidates = Candidates(out),
                           !.provider_calls = @ + 1, !.pc = "save_chat"]
            ELSE [@ EXCEPT !.provider = "failed", !.exc = res.exc,
                           !.messages = messages_sent(req[r].chat.user_message),
                           !.candidates = Candidates(out),
                           !.provider_calls = @ + 1, !.pc = "close"]]
    /\ UNCHANGED <<store, proc, ui>>

\* The values func.now() may have at an insert: the store clock never runs
\* behind the timestamp of a row it has already stamped.
Now(rows) ==
    LET last == IF Len(rows) = 0 THEN 0 ELSE rows[Len(rows)].timestamp
    IN last..(last + MaxClock)

\* create_chat, lines 14-15: chat_entry = crud.save_chat(db, chat, response),
\* then the response record is built from chat_entry.
create_chat_save_chat(r) ==
    /\ req[r].pc = "save_chat"
    /\ \E now \in Now(store) :
       LET res == save_chat(store, now, req[r].chat, req[r].response)
       IN /\ store' = res.rows
          /\ req' = [req EXCEPT ![r] =
               IF res.exc = NoExc
               THEN [@ EXCEPT !.save_calls = @ + 1, !.pc = "close",
                              !.inserts = @ + Len(res.rows) - Len(store),
                              !.chat_entry = res.entry,
                              !.chat_result = ChatResponse(res.entry)]
               ELSE [@ EXCEPT !.save_calls = @ + 1, !.pc = "close",
                              !.inserts = @ + Len(res.rows) - Len(store),
                              !.exc = res.exc]]
    /\ UNCHANGED <<proc, ui>>

\* GET /history arrives: get_db opens the session.  The route declares no
\* limit parameter, so a limit in the query string is not read.
ReceiveHistory(r, q) ==
    /\ proc.phase = "running"
    /\ req[r].pc = "idle"
    /\ req' = [req EXCEPT ![r] =
         [@ EXCEPT !.kind = "history", !.limit_param = q, !.session = "open",
                   !.pc = "get_history"]]
    /\ UNCHANGED <<store, proc, ui>>

\* A get_history that trims the table to the rows it may return.
get_history_trimming(r) ==
    /\ req[r].pc = "get_history"
    /\ LET res == get_chat_history(store, NoArgs)
       IN IF res.exc = NoExc
          THEN \E chats \in res.results :
                 req' = [req EXCEPT ![r] =
                   [@ EXCEPT !.chats = chats, !.history_result = Project(chats),
                             !.pc = "close"]]
          ELSE req' = [req EXCEPT ![r] =
                   [@ EXCEPT !.exc = res.exc, !.pc = "close"]]
    /\ store' = Limit(store, DefaultLimit)
    /\ UNCHANGED <<proc, ui>>

\* get_history: chats = get_chat_history(db), then the projection.
get_history(r) ==
    /\ req[r].pc = "get_history"
    /\ LET res == get_chat_history(store, NoArgs)
       IN IF res.exc = NoExc
          THEN \E chats \in res.results :
                 req' = [req EXCEPT ![r] =
                   [@ EXCEPT !.chats = chats, !.history_result = Project(chats),
                             !.pc = "close"]]
          ELSE req' = [req EXCEPT ![r] =
                   [@ EXCEPT !.exc = res.exc, !.pc = "close"]]
    /\ UNCHANGED <<store, proc, ui>>

\* A get_db without try/finally: db.close() runs only when the handler
\* returned normally.
get_db_close_on_success(r) ==
    /\ req[r].pc = "close"
    /\ req' = [req EXCEPT ![r] =
         [@ EXCEPT !.session = IF req[r].exc = NoExc THEN "closed" ELSE @,
                   !.status = StatusOf(req[r].exc), !.pc = "done"]]
    /\ UNCHANGED <<store, proc, ui>>

\* get_db, finally: db.close(); the request ends with its status.
get_db_close(r) ==
    /\ req[r].pc = "close"
    /\ req' = [req EXCEPT ![r] =
         [@ EXCEPT !.session = "closed", !.status = StatusOf(req[r].exc),
                   !.pc = "done"]]
    /\ UNCHANGED <<store, proc, ui>>

\* A direct call crud.get_chat_history(db, ...), as the unit tests and the
\* integration scripts make it, on a session of the caller.
CallArgs ==
    {NoArgs, Args(FALSE, 0, TRUE, 3), Args(TRUE, 1, FALSE, 0),
     Args(TRUE, 1, TRUE, 3)}

call_get_chat_history(r, a) ==
    /\ proc.phase = "running"
    /\ req[r].pc = "idle"
    /\ LET res == get_chat_history(store, a)
       IN IF res.exc = NoExc
          THEN \E chats \in res.results :
                 req' = [req EXCEPT ![r] =
                   [@ EXCEPT !.kind = "call", !.args = a, !.pc = "done",
                             !.chats = chats,
                             !.history_result = Project(chats)]]
          ELSE req' = [req EXCEPT ![r] =
                   [@ EXCEPT !.kind = "call", !.args = a, !.pc = "done",
                             !.exc = res.exc]]
    /\ UNCHANGED <<store, proc, ui>>

Next ==
    \/ \E r \in Reqs, body \in Bodies : ReceiveChat(r, body)
    \/ \E r \in Reqs, out \in ProviderOutcomes : create_chat_get_response(r, out)
    \/ \E r \in Reqs : create_chat_save_chat(r)
    \/ \E r \in Reqs, q \in LimitParams : ReceiveHistory(r, q)
    \/ \E r \in Reqs : get_history(r)
    \/ \E r \in Reqs : get_db_close(r)
    \/ \E r \in Reqs, a \in CallArgs : call_get_chat_history(r, a)

Spec == Init /\ [][Next]_vars

\* ------------------------------------------------- the two mappings alone
\* ChatResponse.model_validate (chatbot.py:15) applied to row i of the table.
model_validate(r, i) ==
    /\ req[r].pc = "idle"
    /\ i \in 1..Len(store)
    /\ req' = [req EXCEPT ![r] =
         [@ EXCEPT !.kind = "model_validate", !.chat_entry = store[i],
                   !.chat_result = ChatResponse(store[i]), !.pc = "done"]]
    /\ UNCHANGED <<store, proc, ui>>

\* The list comprehension of get_history (history.py:13) applied to the k
\* latest rows of the table.
project(r, k) ==
    /\ req[r].pc = "idle"
    /\ k \in 0..Len(store)
    /\ LET chats == IF k = 0 THEN <<>>
                    ELSE [i \in 1..k |-> store[Len(store) + 1 - i]]
       IN req' = [req EXCEPT ![r] =
            [@ EXCEPT !.kind = "project", !.chats = chats,
                      !.history_result = Project(chats), !.pc = "done"]]
    /\ UNCHANGED <<store, proc, ui>>

NextShapes ==
    \/ \E r \in Reqs, i \in 1..MaxRows + 1 : model_validate(r, i)
    \/ \E r \in Reqs, k \in 0..MaxRows + 1 : project(r, k)

\* The specification of the two mappings applied to stored rows.
SpecShapes == Init /\ [][NextShapes]_vars

\* ------------------------------------------- the two service functions alone
\* get_response(user_message) called on its own with a provider that does
\* `out`, as the unit tests of the engine call it.
call_get_response(r, m, out) ==
    /\ req[r].pc = "idle"
    /\ LET res == get_response(out)
       IN req' = [req EXCEPT ![r] =
            [@ EXCEPT !.kind = "get_response", !.chat = [user_message |-> m],
                      !.messages = messages_sent(m),
                      !.candidates = Candidates(out), !.provider_out = out,
                      !.provider = IF res.exc = NoExc THEN "returned" ELSE "failed",
                      !.provider_calls = @ + 1, !.response = res.value,
                      !.exc = res.exc, !.pc = "done"]]
    /\ UNCHANGED <<store, proc, ui>>

\* The response argument of a direct save_chat call: a text or None.
Responses == Replies \cup {Null}

\* crud.save_chat(db, ChatRequest(user_message=m), response) called on its
\* own, as the unit tests of crud call it.
call_save_chat(r, m, response) ==
    /\ req[r].pc = "idle"
    /\ \E now \in Now(store) :
       LET chat == ChatRequest(TextBody(m))
           res == save_chat(store, now, chat, response)
       IN /\ store' = res.rows
          /\ req' = [req EXCEPT ![r] =
               [@ EXCEPT !.kind = "save_chat", !.chat = chat,
                         !.response = response, !.save_calls = @ + 1,
                         !.inserts = @ + Len(res.rows) - Len(store),
                         !.chat_entry = res.entry, !.exc = res.exc,
                         !.pc = "done"]]
    /\ UNCHANGED <<proc, ui>>

NextCalls ==
    \/ \E r \in Reqs, m \in Msgs, out \in ProviderOutcomes :
         call_get_response(r, m, out)
    \/ \E r \in Reqs, m \in Msgs, response \in Responses :
         call_save_chat(r, m, response)

\* The specification of get_response and save_chat called directly.
SpecCalls == Init /\ [][NextCalls]_vars

\* ---------------------------------------------------------------- startup
\* The process before its modules are imported: DATABASE_URL is set or not.
InitStartup ==
    /\ \E n \in 0..MaxRows : store = [i \in 1..n |-> ExistingRow(i)]
    /\ req = [r \in Reqs |-> IdleReq]
    /\ \E url \in DatabaseUrls :
         proc = [phase |-> "import", database_url |-> url, client |-> NoClient]
    /\ ui = InitialUi

\* A create_engine that takes any argument and fails only when it first
\* connects.
create_engine_lazy(database_url) == [exc |-> NoExc]

\* sqlalchemy.create_engine(database_url): None is not a URL.
create_engine(database_url) ==
    IF database_url = Null THEN [exc |-> "ArgumentError"] ELSE [exc |-> NoExc]

\* main.py is imported: services/database.py reads DATABASE_URL and builds
\* the engine, ai_engine.py builds the client, then the app object and its
\* routes exist.  An exception at import ends the process.
Startup ==
    /\ proc.phase = "import"
    /\ proc' = IF create_engine(proc.database_url).exc = NoExc
               THEN [proc EXCEPT !.phase = "running", !.client = Groq(ApiKey)]
               ELSE [proc EXCEPT !.phase = "failed"]
    /\ UNCHANGED <<store, req, ui>>

NextStartup ==
    \/ Startup
    \/ Next

\* The specification of the service from the start of its process.
SpecStartup == InitStartup /\ [][NextStartup]_vars

\* ----------------------------------------------------------------- client
\* The client session on its own: the service is whatever answers its POST.
InitClient ==
    /\ store = <<>>
    /\ req = [r \in Reqs |-> IdleReq]
    /\ proc = RunningProc
    /\ ui = InitialUi

Prompts == {"hi"}

\* What response.json() gives for a 200 answer: not JSON, an object without
\* the key, or an object whose bot_response is a text or null.
JsonBodies ==
    {[ok |-> FALSE, has |-> FALSE, bot_response |-> Null],
     [ok |-> TRUE, has |-> FALSE, bot_response |-> Null],
     [ok |-> TRUE, has |-> TRUE, bot_response |-> Null],
     [ok |-> TRUE, has |-> TRUE, bot_response |-> "r1"]}
NoJson == [ok |-> FALSE, has |-> FALSE, bot_response |-> Null]

\* What requests.post does: it returns a response or raises.
PostOutcomes ==
    {[kind |-> "response", status |-> 200, json |-> j] : j \in JsonBodies}
      \cup {[kind |-> "response", status |-> c, json |-> NoJson] : c \in {422, 500}}
      \cup {[kind |-> k, status |-> 0, json |-> NoJson] :
              k \in {"Timeout", "ConnectionError", "TooManyRedirects"}}

DefaultReply == "I apologize, but I couldn't generate a response."
UnexpectedError(e) == "Unexpected error: " \o e

\* stream_response(text): text.split() fails on a value that is not a text.
stream_response(text) ==
    IF text = Null THEN [exc |-> "AttributeError"] ELSE [exc |-> NoExc]

Assistant(content) == [role |-> "assistant", content |-> content]

\* A handler without the last except clause: an exception that is neither a
\* timeout nor a connection error leaves the script run.
reply_uncaught(out) ==
    IF out.kind = "Timeout"
    THEN [append |-> <<Assistant("Request timed out. Please try again.")>>,
          counted |-> 0]
    ELSE IF out.kind = "ConnectionError"
    THEN [append |-> <<Assistant("Cannot connect to backend. Please check if the backend service is running.")>>,
          counted |-> 0]
    ELSE IF out.kind # "response"
    THEN [append |-> <<>>, counted |-> 0]
    ELSE IF out.status # 200
    THEN [append |-> <<Assistant("Error: Backend returned status code "
                                   \o ToString(out.status))>>,
          counted |-> 0]
    ELSE IF ~out.json.ok
    THEN [append |-> <<>>, counted |-> 0]
    ELSE LET bot_reply == IF out.json.has THEN out.json.bot_response
                          ELSE DefaultReply
         IN IF stream_response(bot_reply).exc # NoExc
            THEN [append |-> <<>>, counted |-> 0]
            ELSE [append |-> <<Assistant(bot_reply)>>, counted |-> 1]

\* The try block of the prompt handler and its three except clauses: the
\* messages it appends and what it adds to total_messages.
reply(out) ==
    IF out.kind = "Timeout"
    THEN [append |-> <<Assistant("Request timed out. Please try again.")>>,
          counted |-> 0]
    ELSE IF out.kind = "ConnectionError"
    THEN [append |-> <<Assistant("Cannot connect to backend. Please check if the backend service is running.")>>,
          counted |-> 0]
    ELSE IF out.kind # "response"
    THEN [append |-> <<Assistant(UnexpectedError(out.kind))>>, counted |-> 0]
    ELSE IF out.status # 200
    THEN [append |-> <<Assistant("Error: Backend returned status code "
                                   \o ToString(out.status))>>,
          counted |-> 0]
    ELSE IF ~out.json.ok
    THEN [append |-> <<Assistant(UnexpectedError("JSONDecodeError"))>>,
          counted |-> 0]
    ELSE LET bot_reply == IF out.json.has THEN out.json.bot_response
                          ELSE DefaultReply
             streamed == stream_response(bot_reply)
         IN IF streamed.exc # NoExc
            THEN [append |-> <<Assistant(UnexpectedError(streamed.exc))>>,
                  counted |-> 0]
            ELSE [append |-> <<Assistant(bot_reply)>>, counted |-> 1]

\* The user submits a prompt: the script appends the user message and counts
\* it, then posts it to the service.
submit_prompt(prompt) ==
    /\ ui.pc = "idle"
    /\ Len(ui.messages) < 2 * MaxPrompts
    /\ ui.total_messages + 2 <= MaxTotal
    /\ ui' = [ui EXCEPT !.messages = Append(@, [role |-> "user",
                                                content |-> prompt]),
                        !.total_messages = @ + 1, !.pc = "post"]
    /\ UNCHANGED <<store, req, proc>>

\* requests.post has answered or raised: the rest of the script run.
handle_reply(out) ==
    /\ ui.pc = "post"
    /\ LET res == reply(out)
       IN ui' = [ui EXCEPT !.messages = @ \o res.append,
                           !.total_messages = @ + res.counted, !.pc = "idle"]
    /\ UNCHANGED <<store, req, proc>>

\* The Clear Chat History button.
clear_chat ==
    /\ ui.pc = "idle"
    /\ ui' = [ui EXCEPT !.messages = <<>>]
    /\ UNCHANGED <<store, req, proc>>

NextClient ==
    \/ \E prompt \in Prompts : submit_prompt(prompt)
    \/ \E out \in PostOutcomes : handle_reply(out)
    \/ clear_chat

\* The specification of one client session.
SpecClient == InitClient /\ [][NextClient]_vars

\* ================================================================ claims
\* Vocabulary of the claims.
Reverse(seq) == [i \in 1..Len(seq) |-> seq[Len(seq) + 1 - i]]

\* The k most recently created exchanges, most recent first.
MostRecent(rows, k) ==
    LET rev == Reverse(rows)
    IN IF k >= Len(rows) THEN rev ELSE IF k <= 0 THEN <<>> ELSE SubSeq(rev, 1, k)

Done(r) == req[r].pc = "done"
IsText(body) == body.has /\ body.t = "str"

\* The value of a limit query parameter when it is a positive integer.
IsPositiveInt(q) == q = "3"
ParamValue(q) == IF q = "3" THEN 3 ELSE IF q = "0" THEN 0 ELSE -1

\* r is a finished history operation: GET /history or a direct call.
HistoryDone(r) == Done(r) /\ req[r].kind \in {"history", "call"}

\* r asked for no limit at all / for the limit k.
AskedNoLimit(r) ==
    \/ req[r].kind = "history" /\ req[r].limit_param = NoLimit
    \/ req[r].kind = "call" /\ ~req[r].args.has_limit /\ ~req[r].args.has_user_id
AskedLimit(r, k) ==
    \/ req[r].kind = "history" /\ req[r].limit_param # NoLimit
         /\ ParamValue(req[r].limit_param) = k
    \/ req[r].kind = "call" /\ req[r].args.has_limit /\ req[r].args.limit = k
         /\ ~req[r].args.has_user_id

\* The POST /chat requests that ended with status 200.
Succeeded == {r \in Reqs : req[r].kind = "chat" /\ Done(r) /\ req[r].status = 200}

\* C1: every POST /chat with a text user_message for which the provider
\* returned text ends with status 200 and echoes user_message exactly.
C1_ChatEchoesMessage ==
    \A r \in Reqs :
        (req[r].kind = "chat" /\ IsText(req[r].body)
           /\ req[r].provider = "returned" /\ Done(r))
        => /\ req[r].status = 200
           /\ req[r].chat_result.user_message = req[r].body.v

\* C2: starting from an empty store, after N successful POST /chat calls (so
\* the store holds N rows) the history operation with limit N returns exactly
\* those N exchanges, the last created first.
C2_HistoryAfterNChats ==
    \A r \in Reqs :
        (HistoryDone(r) /\ Len(store) = Cardinality(Succeeded)
           /\ AskedLimit(r, Cardinality(Succeeded)))
        => /\ req[r].exc = NoExc
           /\ req[r].history_result = Project(Reverse(store))

\* C3: with more than k exchanges stored (k positive), the history operation
\* with limit k returns exactly the k most recently created, most recent first.
C3_HistoryLimitK ==
    \A r \in Reqs : \A k \in 1..MaxRows :
        (HistoryDone(r) /\ AskedLimit(r, k) /\ Len(store) > k)
        => /\ req[r].exc = NoExc
           /\ Len(req[r].history_result) = k
           /\ req[r].history_result = Project(MostRecent(store, k))

C6_RoundTrip ==
    [][\A h \in Reqs : \A c \in Reqs :
         (/\ req[h].pc = "get_history" /\ req'[h].pc = "close"
          /\ req[c].kind = "chat" /\ IsText(req[c].body)
          /\ req[c].provider = "returned" /\ Done(c)
          /\ \A d \in Reqs \ {c} : req[d].save_calls = 0)
         => /\ req'[h].exc = NoExc
            /\ Len(req'[h].history_result) >= 1
            /\ req'[h].history_result[1]
                 = [user |-> req[c].body.v, bot |-> req[c].response]]_vars

\* C7: with no exchange stored, the history operation called with nothing but
\* the session (GET /history without parameters) returns the empty sequence
\* and does not fail.
C7_EmptyHistory ==
    \A r \in Reqs :
        (HistoryDone(r) /\ AskedNoLimit(r) /\ Len(store) = 0)
        => /\ req[r].exc = NoExc
           /\ req[r].history_result = <<>>
           /\ (req[r].kind = "history" => req[r].status = 200)

\* C8: called without a limit, the history operation uses the limit 10: with
\* more than 10 exchanges stored it returns exactly 10 entries.
C8_DefaultLimit ==
    \A r \in Reqs :
        (HistoryDone(r) /\ AskedNoLimit(r) /\ Len(store) > DefaultLimit)
        => /\ req[r].exc = NoExc
           /\ Len(req[r].history_result) = DefaultLimit

\* C9: when fewer exchanges are stored than the requested limit, the history
\* operation returns all of them (min(limit, stored) entries) and never fails.
C9_FewerThanLimit ==
    \A r \in Reqs : \A k \in 1..(MaxRows + 1) :
        (HistoryDone(r) /\ AskedLimit(r, k) /\ Len(store) < k)
        => /\ req[r].exc = NoExc
           /\ Len(req[r].history_result) = Len(store)
           /\ req[r].history_result = Project(Reverse(store))

\* C10: GET /history with a limit that is not a valid positive integer does
\* not produce an error: it ends with status 200.
C10_InvalidLimitFallsBack ==
    \A r \in Reqs :
        (req[r].kind = "history" /\ Done(r)
           /\ req[r].limit_param # NoLimit /\ ~IsPositiveInt(req[r].limit_param))
        => /\ req[r].status = 200
           /\ req[r].exc = NoExc

\* The limit a finished history operation was asked for (10 when none).
LimitOf(r) ==
    IF req[r].kind = "call" /\ req[r].args.has_limit THEN req[r].args.limit
    ELSE DefaultLimit

\* C11: the history operation needs no user identity and filters by none: a
\* call without a user id does not fail for lack of one, and whatever a
\* history operation returns is drawn from the exchanges of all users alike
\* (the most recent ones of the whole store).
C11_SharedHistory ==
    \A r \in Reqs :
        HistoryDone(r)
        => /\ (~req[r].args.has_user_id => req[r].exc # "TypeError")
           /\ (req[r].exc = NoExc
                 => req[r].history_result = Project(MostRecent(store, LimitOf(r))))

\* The number of rows the requests in S have inserted.
RECURSIVE InsertsOf(_)
InsertsOf(S) ==
    IF S = {} THEN 0
    ELSE LET r == CHOOSE x \in S : TRUE
         IN req[r].inserts + InsertsOf(S \ {r})

\* C12: every POST /chat invocation that has what it needs to succeed (a text
\* user_message, a provider that returned) makes exactly one provider call and
\* exactly one store insert, and the number of exchanges the service created
\* equals the number of POST /chat requests that returned 200.
C12_OneCallOneInsert ==
    /\ \A r \in Reqs :
         (req[r].kind = "chat" /\ IsText(req[r].body)
            /\ req[r].provider = "returned" /\ Done(r))
         => /\ req[r].provider_calls = 1
            /\ req[r].inserts = 1
    /\ InsertsOf(Reqs) = Cardinality(Succeeded)

C15_RowsNeverChange ==
    [][\A i \in 1..Len(store) :
         /\ i <= Len(store')
         /\ store'[i] = store[i]]_vars

C15_Witness ==
    \E r \in Reqs : \E h \in Reqs :
        /\ Len(store) >= 2
        /\ req[r].kind = "chat" /\ req[r].save_calls = 1 /\ Done(r)
        /\ req[h].kind = "history" /\ Done(h)

C17_ConcurrentChats ==
    (\A r \in Reqs : /\ req[r].kind = "chat" /\ IsText(req[r].body)
                     /\ req[r].provider = "returned" /\ Done(r))
    => /\ \A r \in Reqs : req[r].status = 200 /\ req[r].session = "closed"
       /\ InsertsOf(Reqs) = MaxReq
       /\ \E f \in [Reqs -> 1..Len(store)] :
            /\ \A r1, r2 \in Reqs : r1 # r2 => f[r1] # f[r2]
            /\ \A r \in Reqs :
                 /\ store[f[r]].user_message = req[r].body.v
                 /\ store[f[r]].bot_response = req[r].response

\* C18: a request never ends with its session still open: whatever way the
\* handler was left (validation error, provider exception, exception of
\* save_chat or of get_chat_history, normal return), the session get_db
\* opened is closed when the request is done; it is open only while the
\* request is being handled.
C18_SessionClosed ==
    \A r \in Reqs :
        req[r].kind \in {"chat", "history"}
        => /\ (Done(r) => req[r].session = "closed")
           /\ (~Done(r) => req[r].session = "open")

C18_Witness ==
    \E r \in Reqs : \E q \in Reqs :
        /\ req[r].kind = "chat" /\ req[r].provider = "failed" /\ Done(r)
        /\ req[r].session = "closed"
        /\ req[q].kind = "chat" /\ req[q].save_calls = 1 /\ Done(q)
        /\ req[q].session = "closed"

\* C19: within one POST /chat the steps come in the order validation,
\* provider call, save_chat, response: the provider is called only for a
\* validated body, save_chat is called only after the provider has returned,
\* and a 200 response is produced only after save_chat has inserted the row.
C19_StepOrder ==
    \A r \in Reqs :
        req[r].kind = "chat"
        => /\ (req[r].provider_calls > 0 => IsText(req[r].body))
           /\ (req[r].pc = "save_chat" \/ req[r].save_calls > 0
                 => req[r].provider = "returned" /\ req[r].provider_calls = 1)
           /\ (req[r].inserts > 0 => req[r].save_calls > 0)
           /\ (req[r].status = 200
                 => req[r].save_calls = 1 /\ req[r].inserts = 1)

C19_Witness ==
    \E r \in Reqs :
        /\ req[r].kind = "chat" /\ req[r].provider = "returned"
        /\ req[r].provider_calls = 1 /\ req[r].save_calls = 1 /\ Done(r)

\* C20: ids are unique and follow insertion order, and every save_chat call
\* of a POST /chat leaves a stored exchange whose id the store assigned: the
\* row it returns is in the store and its id is a positive number no other
\* row has.
C20_StoreAssignedIds ==
    /\ \A i, j \in 1..Len(store) : i < j => store[i].id < store[j].id
    /\ \A r \in Reqs :
         (req[r].kind = "chat" /\ req[r].save_calls >= 1)
         => /\ req[r].chat_entry.id >= 1
            /\ \E i \in 1..Len(store) :
                 /\ store[i] = req[r].chat_entry
                 /\ \A j \in 1..Len(store) : j # i => store[j].id # store[i].id

\* C21: timestamps never decrease with insertion order, and every save_chat
\* call of a POST /chat leaves a stored exchange whose timestamp the store
\* set at the insert: the row it returns is in the store and no row created
\* before it has a later timestamp.
C21_StoreAssignedTimestamps ==
    /\ \A i, j \in 1..Len(store) :
         i < j => store[i].timestamp <= store[j].timestamp
    /\ \A r \in Reqs :
         (req[r].kind = "chat" /\ req[r].save_calls >= 1)
         => \E i \in 1..Len(store) :
              /\ store[i].id = req[r].chat_entry.id
              /\ store[i].timestamp = req[r].chat_entry.timestamp
              /\ \A j \in 1..i : store[j].timestamp <= store[i].timestamp

\* C22: whenever a POST /chat has called the provider, the messages it sent
\* are exactly two: a system message with the fixed instruction, the same
\* for every request, then a user message whose content is the submitted
\* user_message as it is (the empty text included); a request that has not
\* called the provider has sent nothing.
C22_TwoMessagesSent ==
    \A r \in Reqs :
        req[r].kind = "chat"
        => IF req[r].provider_calls > 0
           THEN /\ Len(req[r].messages) = 2
                /\ req[r].messages[1] = [role |-> "system",
                                         content |-> system_prompt]
                /\ req[r].messages[2] = [role |-> "user",
                                         content |-> req[r].body.v]
                /\ \A q \in Reqs :
                     (req[q].kind = "chat" /\ req[q].provider_calls > 0)
                     => req[q].messages[1] = req[r].messages[1]
           ELSE req[r].messages = <<>>

C22_Witness ==
    \E r \in Reqs : \E q \in Reqs :
        /\ req[r].kind = "chat" /\ req[r].provider_calls = 1
        /\ req[r].body.v = "" /\ req[r].messages[2].content = ""
        /\ req[q].kind = "chat" /\ req[q].provider_calls = 1
        /\ req[q].body.v = " A " /\ req[q].messages[2].content = " A "

C24_EmptyCandidatesFail ==
    \A r \in Reqs :
        (req[r].kind = "chat" /\ req[r].candidates = "empty")
        => /\ req[r].exc = "IndexError"
           /\ req[r].provider = "failed"
           /\ req[r].response = Null
           /\ req[r].save_calls = 0 /\ req[r].inserts = 0
           /\ req[r].chat_entry = NoEntry
           /\ req[r].pc \in {"close", "done"}
           /\ (Done(r) => req[r].status = 500)

C24_Witness ==
    \E r \in Reqs :
        /\ req[r].kind = "chat" /\ req[r].candidates = "empty" /\ Done(r)
        /\ req[r].status = 500 /\ req[r].save_calls = 0

\* C25: a direct save_chat call with a ChatRequest that carries only
\* user_message and with response None succeeds: it inserts one row, the row
\* has the request's user_message and a null bot_response; no stored row has
\* a null user_message.
C25_SaveChatNoneResponse ==
    /\ \A i \in 1..Len(store) : store[i].user_message # Null
    /\ \A r \in Reqs :
         (req[r].kind = "save_chat" /\ req[r].response = Null)
         => /\ req[r].exc = NoExc
            /\ req[r].inserts = 1
            /\ req[r].chat_entry.user_message = req[r].chat.user_message
            /\ req[r].chat_entry.bot_response = Null
            /\ \E i \in 1..Len(store) : store[i] = req[r].chat_entry

\* C26: the provider client exists exactly while the process runs and is the
\* one built at its start: no request replaces or changes it.  Two finished
\* requests of the same kind with the same input and the same provider
\* answer have the same outcome, whatever other requests were handled.
C26_ClientOnlyRead ==
    /\ proc.client = IF proc.phase = "running" THEN Groq(ApiKey) ELSE NoClient
    /\ \A r \in Reqs : \A q \in Reqs :
         (Done(r) /\ Done(q) /\ req[r].kind = req[q].kind
            /\ req[r].kind \in {"chat", "history"}
            /\ req[r].body = req[q].body
            /\ req[r].limit_param = req[q].limit_param
            /\ req[r].candidates = req[q].candidates
            /\ req[r].response = req[q].response)
         => /\ req[r].status = req[q].status
            /\ req[r].exc = req[q].exc
            /\ req[r].chat_result = req[q].chat_result
            /\ req[r].history_result = req[q].history_result

C26_Witness ==
    \E r \in Reqs : \E q \in Reqs :
        /\ r # q /\ Done(r) /\ Done(q)
        /\ req[r].kind = "chat" /\ req[q].kind = "chat"
        /\ req[r].provider_calls = 1 /\ req[q].provider_calls = 1
        /\ req[r].body # req[q].body
        /\ proc.client = Groq(ApiKey)

\* C27: a process started without DATABASE_URL never runs: it stays in its
\* import or has failed there, and no request is ever taken up.
C27_NoDatabaseUrlNoService ==
    proc.database_url = Null
    => /\ proc.phase \in {"import", "failed"}
       /\ \A r \in Reqs : req[r] = IdleReq

C27_Witness ==
    /\ proc.database_url = Null
    /\ proc.phase = "failed"
    /\ \A r \in Reqs : req[r] = IdleReq

C29_HistoryReadOnly ==
    [][\A r \in Reqs :
         (req'[r] # req[r] /\ req'[r].kind = "history")
         => /\ store' = store
            /\ req'[r].provider_calls = 0 /\ req'[r].messages = <<>>
            /\ req'[r].save_calls = 0 /\ req'[r].inserts = 0]_vars

C29_Witness ==
    \E r \in Reqs :
        /\ req[r].kind = "history" /\ Done(r) /\ req[r].status = 500
        /\ Len(store) > DefaultLimit

\* C30: in the client the list of messages alternates user, assistant, ...
\* from its first entry; it has even length whenever no prompt is being
\* handled and odd length, ending with the user message, while one is: each
\* prompt adds one user message and then, on every outcome of the POST, one
\* assistant message.
C30_MessagesAlternate ==
    LET m == ui.messages
    IN /\ \A i \in 1..Len(m) :
            m[i].role = IF i % 2 = 1 THEN "user" ELSE "assistant"
       /\ (ui.pc = "idle" => Len(m) % 2 = 0)
       /\ (ui.pc = "post" => Len(m) % 2 = 1)

C30_Witness ==
    /\ ui.pc = "idle" /\ Len(ui.messages) = 4
    /\ ui.messages[2].content = UnexpectedError("AttributeError")
    /\ ui.messages[4].content = "r1"
====
